---- MODULE Spec2Model ----
(***************************************************************************)
(* A model of src/stats.py (class WebStats): the batch pipeline            *)
(*   read_whois_cache -> logfiles_lookup -> read_logfiles ->               *)
(*   collect_whois -> select_ac -> remove_bots -> stats -> export          *)
(* with the WHOIS cache, the failed set, the last_failed marker and the    *)
(* cache file on disk.                                                     *)
(*                                                                         *)
(* Python values are modelled as follows.                                  *)
(*   str        a sequence of one-character strings; a few tokens that the *)
(*              code never looks inside (an address, "access.log") are a   *)
(*              single element                                             *)
(*   None       the value None below                                       *)
(*   int n      <<"int", n>>                                               *)
(*   tuple/list a sequence                                                 *)
(*   dict       a function whose DOMAIN is the set of keys                 *)
(*   set        a set                                                      *)
(***************************************************************************)
EXTENDS Naturals, Sequences, FiniteSets

\* ------------------------------------------------------------------ bounds
\* How many times main() is called in one behaviour.
MaxRuns == 2
\* How many log lines the log directory holds over all the runs together.
MaxLines == 3

\* ------------------------------------------------------- python primitives
None == <<"None-object">>

\* Python's truth value of a str, tuple, list or None.
Truthy(x) == x # None /\ Len(x) > 0

\* str(x) for x a str or None.
Str(x) == IF x = None THEN <<"N", "o", "n", "e">> ELSE x

\* b in s, for two strs.
Contains(s, b) ==
  \E k \in 0..Len(s) :
    /\ k + Len(b) <= Len(s)
    /\ SubSeq(s, k + 1, k + Len(b)) = b

\* sep.join(parts)
RECURSIVE Join(_, _)
Join(sep, parts) ==
  IF Len(parts) = 0 THEN <<>>
  ELSE IF Len(parts) = 1 THEN parts[1]
  ELSE parts[1] \o sep \o Join(sep, Tail(parts))

\* s.replace('\n', with)
RECURSIVE ReplaceNewline(_, _)
ReplaceNewline(s, with) ==
  IF Len(s) = 0 THEN <<>>
  ELSE (IF Head(s) = "\n" THEN with ELSE <<Head(s)>>)
         \o ReplaceNewline(Tail(s), with)

Digits == {"0", "1", "2", "3", "4", "5", "6", "7", "8", "9"}

DigitValue(c) ==
  CASE c = "0" -> 0 [] c = "1" -> 1 [] c = "2" -> 2 [] c = "3" -> 3
    [] c = "4" -> 4 [] c = "5" -> 5 [] c = "6" -> 6 [] c = "7" -> 7
    [] c = "8" -> 8 [] c = "9" -> 9

\* s.isdigit()
IsDigit(s) == Len(s) > 0 /\ \A k \in 1..Len(s) : s[k] \in Digits

\* int(s), for s.isdigit()
RECURSIVE ToInt(_)
ToInt(s) ==
  IF Len(s) = 0 THEN 0
  ELSE 10 * ToInt(SubSeq(s, 1, Len(s) - 1)) + DigitValue(s[Len(s)])

\* d.update(w)
Update(d, w) ==
  [k \in (DOMAIN d) \cup (DOMAIN w) |-> IF k \in DOMAIN w THEN w[k] ELSE d[k]]

\* ------------------------------------------------------------ configuration
\* The constructor's defaults.
bot_keywords ==
  { <<"M", "i", "c", "r", "o", "s", "o", "f", "t">>,
    <<"F", "a", "c", "e", "b", "o", "o", "k">>,
    <<"Y", "a", "h", "o", "o">>,
    <<"G", "o", "o", "g", "l", "e">>,
    <<"B", "a", "i", "d", "u">>,
    <<"B", "o", "t">> }

ac_keywords ==
  { <<"U", "n", "i">>, <<"L", "a", "b">>, <<"I", "n", "s", "t", "i", "t">>,
    <<"B", "i", "o">>, <<"S", "c", "i">>, <<"G", "e", "n", "o">> }

\* logfiles_domain's default.
logfiles_domain == None

\* domain_filter's default, lambda x: x, under filter(): the truth value of
\* the record, a dict with seven keys.
domain_filter(d) == DOMAIN d # {}

\* ---------------------------------------------------------------- readfile
\* The body of the loop of readfile for one character c; st holds the
\* loop's variables in_q, line, field and out.
readfile_char(st, c) ==
  IF c = "\"" THEN [st EXCEPT !.in_q = ~st.in_q]
  ELSE IF c = "\n" THEN
    IF ~st.in_q
    THEN [st EXCEPT !.out = Append(st.out, Append(st.line, st.field)),
                    !.line = <<>>, !.field = <<>>]
    ELSE st
  ELSE IF c = " " /\ ~st.in_q
    THEN [st EXCEPT !.line = Append(st.line, st.field), !.field = <<>>]
  ELSE [st EXCEPT !.field = Append(st.field, c)]

\* The loop over the characters s[lo..hi], in order, from the variables st:
\* the first half, then the second half from what the first left (the test
\* of in_q, a bool, has the first half computed before the second starts).
RECURSIVE ReadChars(_, _, _, _)
ReadChars(s, lo, hi, st) ==
  IF lo > hi THEN st
  ELSE IF lo = hi THEN readfile_char(st, s[lo])
  ELSE LET mid == (lo + hi) \div 2
           left == ReadChars(s, lo, mid, st)
       IN IF left.in_q \in BOOLEAN THEN ReadChars(s, mid + 1, hi, left) ELSE left

\* readfile(fname), given the file's content: the list of lines, each a list
\* of fields.
readfile(content) ==
  LET st == ReadChars(content, 1, Len(content),
                      [in_q |-> FALSE, line |-> <<>>, field |-> <<>>, out |-> <<>>])
  IN IF Len(st.line) > 0 THEN Append(st.out, Append(st.line, st.field))
     ELSE st.out

\* ------------------------------------------------------------- processline
\* The highest index processline reads is l[9].
NFields == 10

\* dateutil.parser.parse(s, fuzzy = True): the parsed value is kept as the
\* text it was parsed from; a text with no digit in it holds no date and
\* the parser raises.
DateParses(s) == \E k \in 1..Len(s) : s[k] \in Digits

\* '%s %s' % (l[3][1:], l[4][:-1]); Python indexes from 0.
TimeText(l) ==
  SubSeq(l[4], 2, Len(l[4])) \o <<" ">> \o SubSeq(l[5], 1, Len(l[5]) - 1)

\* Whether processline(l) raises, and what.
processline_raises(l) ==
  IF Len(l) < NFields THEN "IndexError"
  ELSE IF ~DateParses(TimeText(l)) THEN "ParserError"
  ELSE "none"

\* processline(l) where it does not raise. Python indexes from 0.
processline(l) ==
  [ ip        |-> l[1],
    req_url   |-> l[2],
    time      |-> TimeText(l),
    http_code |-> IF IsDigit(l[7]) THEN <<"int", ToInt(l[7])>> ELSE None,
    page      |-> l[6],
    from_url  |-> l[9],
    useragent |-> l[10] ]

\* ------------------------------------------------------------- whoislookup
EmptyDict == [k \in {} |-> None]

\* The three exceptions whoislookup catches.
TransientErrors == {"HTTPLookupError", "HTTPRateLimitError", "WhoisLookupError"}

\* The guard with the key misspelt, so that it never finds the marker.
whois_done_wrong_key(l) == "whois_done" \in DOMAIN l /\ l["whois_done"]

\* The first statement of whoislookup: the record is already enriched.
whois_done(l) == "_whois_done" \in DOMAIN l /\ l["_whois_done"]

\* this_whois as first assigned.
default_whois ==
  [k \in {"country", "names", "_whois_done"} |->
     CASE k = "country" -> None
       [] k = "names" -> << <<None, None, None, None>> >>
       [] k = "_whois_done" -> FALSE]

\* this_whois after a successful lookup_whois that returned res.
resolved_whois(res) ==
  [k \in {"country", "names", "_whois_done"} |->
     CASE k = "country" -> res.asn_country_code
       [] k = "names" ->
            [n \in 1..Len(res.nets) |->
               <<res.nets[n].name, res.nets[n].description,
                 res.nets[n].city, res.nets[n].country>>]
       [] k = "_whois_done" -> TRUE]

\* What one call leaves: the record, the cache, the failed set, last_failed,
\* what it wrote to stdout, and the exception it raised ("none" if none).
Left(l, C, F, lf, out, raised) ==
  [l |-> l, cache |-> C, failed |-> F, last_failed |-> lf,
   out |-> out, raised |-> raised]

\* The branch of whoislookup for an address that is in WHOIS_FAILED and not
\* in WHOIS_CACHE: a bare return, before l.update.
failed_branch(l, C, F, lf) == Left(l, C, F, lf, <<>>, "none")

\* The cached branch returning like the failed one, before l.update.
cached_branch_returns(l, C, F, lf) == Left(l, C, F, lf, <<>>, "none")

\* The branch of whoislookup for an address that is in WHOIS_CACHE.
cached_branch(l, C, F, lf) == Left(Update(l, C[l.ip]), C, F, lf, <<>>, "none")

\* The except clause of whoislookup.
transient_failure(l, C, F, lf) ==
  Left(Update(l, default_whois), C, F \cup {l.ip}, l.ip,
       << <<l.ip, " [FAILED]\n">> >>, "none")

\* The else branch: a live lookup whose answer is ans, either
\* [kind |-> "ok", res |-> ...] or [kind |-> the exception raised].
live_lookup(l, C, F, lf, ans) ==
  IF ans.kind = "ok" THEN
    LET w == resolved_whois(ans.res) IN
    Left(Update(l, w),
         [k \in (DOMAIN C) \cup {l.ip} |-> IF k = l.ip THEN w ELSE C[k]],
         F, lf, << <<l.ip, "\n">> >>, "none")
  ELSE IF ans.kind \in TransientErrors THEN transient_failure(l, C, F, lf)
  ELSE Left(l, C, F, lf, << <<l.ip, "">> >>, ans.kind)

\* whoislookup without the test of WHOIS_FAILED: a failed address is looked
\* up again by every record that has it.
whoislookup_retries(l, C, F, lf, ans) ==
  IF "_whois_done" \in DOMAIN l /\ l["_whois_done"]
  THEN Left(l, C, F, lf, <<>>, "none")
  ELSE IF l.ip \in DOMAIN C THEN Left(Update(l, C[l.ip]), C, F, lf, <<>>, "none")
  ELSE live_lookup(l, C, F, lf, ans)

\* whoislookup(l) with WHOIS_CACHE = C, WHOIS_FAILED = F, last_failed = lf.
whoislookup(l, C, F, lf, ans) ==
  IF whois_done(l) THEN Left(l, C, F, lf, <<>>, "none")
  ELSE IF l.ip \in DOMAIN C THEN cached_branch(l, C, F, lf)
  ELSE IF l.ip \in F THEN failed_branch(l, C, F, lf)
  ELSE live_lookup(l, C, F, lf, ans)

\* The except clause without the discard.
rollback_keeps(F, lf) == F

\* The except clause of collect_whois: WHOIS_FAILED.discard(last_failed).
rollback(F, lf) == F \ {lf}

\* ------------------------------------------------------------ inspect_name
\* any(b in n1 for b in kws)
any_keyword(n1, kws) == \E b \in kws : Contains(n1, b)

\* The inner loop of inspect_name over the fields n0[j..].
RECURSIVE inspect_fields(_, _, _)
inspect_fields(n0, j, kws) ==
  IF j > Len(n0) THEN FALSE
  ELSE IF ~Truthy(n0[j]) THEN inspect_fields(n0, j + 1, kws)
  ELSE IF any_keyword(n0[j], kws) THEN TRUE
  ELSE inspect_fields(n0, j + 1, kws)

\* The outer loop of inspect_name over the tuples n[k..].
RECURSIVE inspect_tuples(_, _, _)
inspect_tuples(n, k, kws) ==
  IF k > Len(n) THEN FALSE
  ELSE IF Len(n[k]) = 0 THEN inspect_tuples(n, k + 1, kws)
  ELSE IF inspect_fields(n[k], 1, kws) THEN TRUE
  ELSE inspect_tuples(n, k + 1, kws)

\* inspect_name looking at the first tuple only, as names() does.
inspect_name_first(n, kws) ==
  Len(n) > 0 /\ Len(n[1]) > 0 /\ inspect_fields(n[1], 1, kws)

inspect_name(n, kws) == inspect_tuples(n, 1, kws)

\* [d for d in data if keep(d['names'])] raises KeyError when a record has
\* no 'names' key.
names_missing(data) == \E k \in 1..Len(data) : "names" \notin DOMAIN data[k]

is_bot(n) == inspect_name(n, bot_keywords)

is_ac(n) == inspect_name(n, ac_keywords)

\* The list remove_bots assigns to self.data, where it does not raise.
remove_bots(data) == SelectSeq(data, LAMBDA d : ~is_bot(d.names))

\* The list select_ac assigns to self.data when only_ac is set.
select_ac(data) == SelectSeq(data, LAMBDA d : is_ac(d.names))

\* -------------------------------------------------------------- aggregator
\* Counter's count of one more x.
Inc(c, x) ==
  [k \in (DOMAIN c) \cup {x} |->
     IF k \in DOMAIN c THEN (IF k = x THEN c[k] + 1 ELSE c[k]) ELSE 1]

\* collections.Counter over a list.
RECURSIVE CounterOfSeq(_)
CounterOfSeq(xs) ==
  IF Len(xs) = 0 THEN EmptyDict
  ELSE Inc(CounterOfSeq(SubSeq(xs, 1, Len(xs) - 1)), xs[Len(xs)])

\* pycountry.countries: the alpha-2 codes, here three of them, and the name
\* lookup() gives for each.
allcountr == { <<"G", "B">>, <<"U", "S">>, <<"D", "E">> }

country_name(code) ==
  CASE code = <<"G", "B">> -> <<"United Kingdom">>
    [] code = <<"U", "S">> -> <<"United States">>
    [] code = <<"D", "E">> -> <<"Germany">>

\* collections.Counter(map(f, S)) over a set S of pairs: f is d[0] in names()
\* and pycountry.countries.lookup(d[0]).name in countries().
RECURSIVE CounterOfPairs(_, _)
CounterOfPairs(S, by_country) ==
  IF S = {} THEN EmptyDict
  ELSE LET x == CHOOSE y \in S : TRUE
       IN Inc(CounterOfPairs(S \ {x}, by_country),
              IF by_country THEN country_name(x[1]) ELSE x[1])

\* The filter of names(): 'names' in d and len(d['names']).
has_names(d) == "names" \in DOMAIN d /\ Len(d.names) > 0

\* (', '.join(map(str, d['names'][0]))).replace('\n', ', ')
name_label(d) ==
  ReplaceNewline(
    Join(<<",", " ">>, [j \in 1..Len(d.names[1]) |-> Str(d.names[1][j])]),
    <<",", " ">>)

\* lst of names(): the (label, ip) pair of every record that has names.
RECURSIVE name_pairs(_)
name_pairs(data) ==
  IF Len(data) = 0 THEN <<>>
  ELSE LET d == data[Len(data)]
           rest == name_pairs(SubSeq(data, 1, Len(data) - 1))
       IN IF has_names(d) THEN Append(rest, <<name_label(d), d.ip>>) ELSE rest

\* names() without the set(): unique has no effect.
names_ignores_unique(data, unique) ==
  LET lst == name_pairs(data) IN CounterOfSeq([k \in 1..Len(lst) |-> lst[k][1]])

\* names(data, unique)
names(data, unique) ==
  LET lst == name_pairs(data) IN
  IF unique
  THEN CounterOfPairs({lst[k] : k \in 1..Len(lst)}, FALSE)
  ELSE CounterOfSeq([k \in 1..Len(lst) |-> lst[k][1]])

\* countries(data)
countries(data) ==
  CounterOfPairs(
    { <<data[k].country, data[k].ip>> :
        k \in {j \in 1..Len(data) :
                 "country" \in DOMAIN data[j] /\ data[j].country \in allcountr} },
    TRUE)

\* output_toplist(fname, cntr): one label<TAB>count line per entry. The file
\* is kept as the set of its lines; their order (descending count, ties by
\* the Counter's insertion order) is left out.
output_toplist(cntr) == { <<k, cntr[k]>> : k \in DOMAIN cntr }

\* ------------------------------------------------------------------ inputs
\* The addresses that occur in the logs.
IpA == <<"1.2.3.4">>
IpB == <<"5.6.7.8">>
IpC == <<"9.9.9.9">>
Addresses == {IpA, IpB, IpC}

\* A well-formed log line of ten fields, the last one quoted.
GoodLine(ip) ==
  ip \o <<" ", "u", " ", "-", " ", "[", "1", " ", "0", "]", " ", "p", " ",
          "2", "0", "0", " ", "-", " ", "r", " ", "\"", "M", " ", "z", "\"",
          "\n">>

\* An empty line, and a line of ten fields with no date in it.
EmptyLine == <<"\n">>
NoDateLine ==
  IpA \o <<" ", "u", " ", "-", " ", "[", " ", "]", " ", "p", " ", "-", " ",
           "-", " ", "r", " ", "z", "\n">>

LogLines == {GoodLine(ip) : ip \in Addresses} \cup {EmptyLine}

\* The contents of a log file of at most n lines.
RECURSIVE FileContents(_)
FileContents(n) ==
  IF n = 0 THEN {<<>>}
  ELSE FileContents(n - 1)
         \cup {f \o ln : f \in FileContents(n - 1), ln \in LogLines}

Entry(name, content) == [name |-> name, content |-> content]

\* What os.listdir(logdir) may find, with at most n log lines in all: an
\* access log beside a file that is no log; or a cache log and an access log
\* of one line each; or a cache log whose line has no date.
Directories(n) ==
  { <<Entry(<<"error.log">>, EmptyLine), Entry(<<"access.log">>, f)>> :
      f \in FileContents(n) }
    \cup
  { <<Entry(<<"d.", "cache.log", ".1">>, f), Entry(<<"access.log">>, g)>> :
      f \in (IF n >= 2 THEN LogLines ELSE {}), g \in LogLines }
    \cup
  { <<Entry(<<"cache.log">>, NoDateLine)>> : k \in (IF n >= 1 THEN {1} ELSE {}) }

\* What the registry answers for an address.
Net(name, description, city, country) ==
  [name |-> name, description |-> description, city |-> city,
   country |-> country]

ResUni ==
  [asn_country_code |-> <<"G", "B">>,
   nets |-> << Net(<<"U", "n", "i">>, None, <<>>, <<"G", "B">>) >>]

ResBot ==
  [asn_country_code |-> <<"U", "S">>,
   nets |-> << Net(<<"G", "o", "o", "g", "l", "e", "B", "o", "t">>,
                   None, None, <<"U", "S">>) >>]

ResHidden ==
  [asn_country_code |-> <<"Z", "Z">>,
   nets |-> << Net(<<"L", "a", "b", "\n", "X">>, None, None, None),
               Net(None, <<"a", "B", "o", "t">>, None, None) >>]

ResNoNets == [asn_country_code |-> None, nets |-> <<>>]

Registry(ip) ==
  CASE ip = IpA -> {ResUni}
    [] ip = IpB -> {ResHidden}
    [] ip = IpC -> {ResBot, ResNoNets}

\* An exception of the lookup that whoislookup does not catch.
UnexpectedErrors == {"IPDefinedError"}

\* How a live lookup of ip may end.
Answers(ip) ==
  {[kind |-> "ok", res |-> r] : r \in Registry(ip)}
    \cup {[kind |-> e, res |-> ResNoNets] : e \in TransientErrors \cup UnexpectedErrors}

\* The cache file: the pickled pair, and which method wrote it (the file
\* itself does not say; read_whois_cache does not look at it). Or no file.
CacheFile(C, F, writer) ==
  [exists |-> TRUE, cache |-> C, failed |-> F, writer |-> writer]
NoCacheFile ==
  [exists |-> FALSE, cache |-> EmptyDict, failed |-> {}, writer |-> "none"]

\* The cache files a first run may find: none, or one an earlier run left.
InitialCacheFiles ==
  { NoCacheFile, CacheFile(EmptyDict, {IpC}, "export") }

\* ------------------------------------------------------------------- state
VARIABLES
  only_ac,                \* constructor argument
  WHOIS_CACHE,            \* dict: address -> whois data
  WHOIS_FAILED,           \* set of addresses
  last_failed,            \* an address or None
  cachefile,              \* whois.pickle on disk
  logs,                   \* self.logs, each with the content it will read
  data,                   \* self.data
  visitors_countries,     \* Counter
  visitors_names,         \* Counter
  visitors_names_unique,  \* Counter
  reports,                \* the three toplist files on disk
  stdout,                 \* what the current call has written: <<ip, mark>>
  pc,                     \* the method main() is about to call; "idle" outside
  i,                      \* collect_whois: the next record of map()
  caller,                 \* who called collect_whois: "main" or "direct"
  swallowed,              \* the exception the except clause of collect_whois caught
  outcome,                \* how the last call ended: "returned" or the exception
  runs,                   \* calls of main() so far
  fed                     \* log lines the log directory has held so far

vars ==
  <<only_ac, WHOIS_CACHE, WHOIS_FAILED, last_failed, cachefile,
    logs, data, visitors_countries, visitors_names, visitors_names_unique,
    reports, stdout, pc, i, caller, swallowed, outcome, runs, fed>>

config == <<only_ac>>
memory == <<WHOIS_CACHE, WHOIS_FAILED, last_failed>>
counters == <<visitors_countries, visitors_names, visitors_names_unique>>

NoReports == [by_name |-> {}, by_name_unique |-> {}, by_country |-> {}]

Init ==
  /\ only_ac \in BOOLEAN
  /\ WHOIS_CACHE = EmptyDict
  /\ WHOIS_FAILED = {}
  /\ last_failed = None
  /\ cachefile \in InitialCacheFiles
  /\ logs = <<>>
  /\ data = <<>>
  /\ visitors_countries = EmptyDict
  /\ visitors_names = EmptyDict
  /\ visitors_names_unique = EmptyDict
  /\ reports = NoReports
  /\ stdout = <<>>
  /\ pc = "idle"
  /\ i = 1
  /\ caller = "main"
  /\ swallowed = "none"
  /\ outcome = "none"
  /\ runs = 0
  /\ fed = 0

\* ----------------------------------------------------------------- actions
\* The caller calls main(): in a new process, or again in the same process
\* after a call of main() that raised.
Main ==
  /\ pc = "idle"
  /\ outcome # "returned"
  /\ runs < MaxRuns
  /\ runs' = runs + 1
  /\ pc' = "read_whois_cache"
  /\ caller' = "main"
  /\ stdout' = <<>>
  /\ swallowed' = "none"
  /\ outcome' = "running"
  /\ UNCHANGED <<config, memory, cachefile, logs, data, counters, reports, i, fed>>

read_whois_cache ==
  /\ pc = "read_whois_cache"
  /\ IF cachefile.exists
     THEN /\ WHOIS_CACHE' = cachefile.cache
          /\ WHOIS_FAILED' = cachefile.failed
     ELSE UNCHANGED <<WHOIS_CACHE, WHOIS_FAILED>>
  /\ pc' = "logfiles_lookup"
  /\ UNCHANGED <<config, last_failed, cachefile, logs, data, counters, reports,
                 stdout, i, caller, swallowed, outcome, runs, fed>>

\* The condition of the list comprehension of logfiles_lookup.
log_selected(fn, domain) ==
  /\ Contains(fn, <<"access.log">>) \/ Contains(fn, <<"cache.log">>)
  /\ domain = None \/ Contains(fn, domain)

\* The log lines of a directory's access and cache logs.
RECURSIVE LinesIn(_)
LinesIn(dir) ==
  IF Len(dir) = 0 THEN 0
  ELSE (IF log_selected(dir[1].name, None)
        THEN Len(readfile(dir[1].content)) ELSE 0) + LinesIn(Tail(dir))

logfiles_lookup ==
  /\ pc = "logfiles_lookup"
  /\ \E dir \in Directories(MaxLines - fed) :
       /\ logs' = SelectSeq(dir, LAMBDA e : log_selected(e.name, logfiles_domain))
       /\ fed' = fed + LinesIn(dir)
  /\ pc' = "read_logfiles"
  /\ UNCHANGED <<config, memory, cachefile, data, counters, reports, stdout, i,
                 caller, swallowed, outcome, runs>>

\* itertools.chain(*map(readfile, logs)): the lines of all the logs.
RECURSIVE all_lines(_)
all_lines(ls) ==
  IF Len(ls) = 0 THEN <<>>
  ELSE readfile(ls[1].content) \o all_lines(Tail(ls))

\* The exception of the first line on which processline raises, or "none".
first_raise(lines) ==
  IF \A k \in 1..Len(lines) : processline_raises(lines[k]) = "none"
  THEN "none"
  ELSE LET k == CHOOSE k \in 1..Len(lines) :
                  /\ processline_raises(lines[k]) # "none"
                  /\ \A j \in 1..(k - 1) : processline_raises(lines[j]) = "none"
       IN processline_raises(lines[k])

\* The list read_logfiles builds, where no line raises.
parsed_records(lines) ==
  SelectSeq([k \in 1..Len(lines) |-> processline(lines[k])], domain_filter)

read_logfiles ==
  /\ pc = "read_logfiles"
  /\ LET lines == all_lines(logs) IN
     IF first_raise(lines) = "none"
     THEN /\ data' = parsed_records(lines)
          /\ pc' = "collect_whois"
          /\ i' = 1
          /\ UNCHANGED outcome
     ELSE /\ outcome' = first_raise(lines)
          /\ pc' = "idle"
          /\ UNCHANGED <<data, i>>
  /\ UNCHANGED <<config, memory, cachefile, logs, counters, reports, stdout,
                 caller, swallowed, runs, fed>>

\* Where control goes when collect_whois returns.
after_collect == IF caller = "main" THEN "select_ac" ELSE "idle"

\* One step of list(map(self.whoislookup, self.data)) and, when it raises,
\* the except clause of collect_whois.
collect_whois_step ==
  /\ pc = "collect_whois"
  /\ i <= Len(data)
  /\ \E ans \in Answers(data[i].ip) :
       LET r == whoislookup(data[i], WHOIS_CACHE, WHOIS_FAILED, last_failed, ans)
       IN /\ data' = [data EXCEPT ![i] = r.l]
          /\ WHOIS_CACHE' = r.cache
          /\ last_failed' = r.last_failed
          /\ stdout' = stdout \o r.out
          /\ IF r.raised = "none"
             THEN /\ WHOIS_FAILED' = r.failed
                  /\ i' = i + 1
                  /\ UNCHANGED <<pc, cachefile, swallowed, outcome>>
             ELSE /\ WHOIS_FAILED' = rollback(r.failed, r.last_failed)
                  /\ cachefile' = CacheFile(r.cache,
                                             rollback(r.failed, r.last_failed),
                                             "collect_whois")
                  /\ swallowed' = r.raised
                  /\ pc' = after_collect
                  /\ outcome' = IF caller = "main" THEN outcome ELSE "returned"
                  /\ UNCHANGED i
  /\ UNCHANGED <<config, logs, counters, reports, caller, runs, fed>>

\* map() is exhausted: collect_whois returns.
collect_whois_end ==
  /\ pc = "collect_whois"
  /\ i > Len(data)
  /\ pc' = after_collect
  /\ outcome' = IF caller = "main" THEN outcome ELSE "returned"
  /\ UNCHANGED <<config, memory, cachefile, logs, data, counters, reports,
                 stdout, i, caller, swallowed, runs, fed>>

select_ac_step ==
  /\ pc = "select_ac"
  /\ IF ~only_ac
     THEN /\ pc' = "remove_bots"
          /\ UNCHANGED <<data, outcome>>
     ELSE IF names_missing(data)
     THEN /\ pc' = "idle"
          /\ outcome' = "KeyError"
          /\ UNCHANGED data
     ELSE /\ data' = select_ac(data)
          /\ pc' = "remove_bots"
          /\ UNCHANGED outcome
  /\ UNCHANGED <<config, memory, cachefile, logs, counters, reports, stdout, i,
                 caller, swallowed, runs, fed>>

remove_bots_step ==
  /\ pc = "remove_bots"
  /\ IF names_missing(data)
     THEN /\ pc' = "idle"
          /\ outcome' = "KeyError"
          /\ UNCHANGED data
     ELSE /\ data' = remove_bots(data)
          /\ pc' = "stats"
          /\ UNCHANGED outcome
  /\ UNCHANGED <<config, memory, cachefile, logs, counters, reports, stdout, i,
                 caller, swallowed, runs, fed>>

stats ==
  /\ pc = "stats"
  /\ visitors_countries' = countries(data)
  /\ visitors_names' = names(data, FALSE)
  /\ visitors_names_unique' = names(data, TRUE)
  /\ pc' = "export"
  /\ UNCHANGED <<config, memory, cachefile, logs, data, reports, stdout, i,
                 caller, swallowed, outcome, runs, fed>>

\* export dumping the cache with an empty failed set.
export_cache_only(C, F) == CacheFile(C, {}, "export")

\* The file export dumps.
export_cachefile(C, F) == CacheFile(C, F, "export")

export ==
  /\ pc = "export"
  /\ reports' = [by_name |-> output_toplist(visitors_names),
                 by_name_unique |-> output_toplist(visitors_names_unique),
                 by_country |-> output_toplist(visitors_countries)]
  /\ cachefile' = export_cachefile(WHOIS_CACHE, WHOIS_FAILED)
  /\ pc' = "idle"
  /\ outcome' = "returned"
  /\ UNCHANGED <<config, memory, logs, data, counters, stdout, i, caller,
                 swallowed, runs, fed>>

\* After main() the caller calls collect_whois() once more on self.data.
CallCollectWhois ==
  /\ pc = "idle"
  /\ caller = "main"
  /\ Len(data) > 0
  /\ caller' = "direct"
  /\ pc' = "collect_whois"
  /\ i' = 1
  /\ stdout' = <<>>
  /\ swallowed' = "none"
  /\ outcome' = "running"
  /\ UNCHANGED <<config, memory, cachefile, logs, data, counters, reports, runs,
                 fed>>

\* The process ends and a new one constructs a WebStats with the same
\* arguments: the class attributes are as the class body sets them.
NewProcess ==
  /\ pc = "idle"
  /\ 0 < runs /\ runs < MaxRuns
  /\ WHOIS_CACHE' = EmptyDict
  /\ WHOIS_FAILED' = {}
  /\ last_failed' = None
  /\ logs' = <<>>
  /\ data' = <<>>
  /\ visitors_countries' = EmptyDict
  /\ visitors_names' = EmptyDict
  /\ visitors_names_unique' = EmptyDict
  /\ stdout' = <<>>
  /\ caller' = "main"
  /\ swallowed' = "none"
  /\ outcome' = "none"
  /\ UNCHANGED <<config, cachefile, reports, pc, i, runs, fed>>

Next ==
  \/ Main
  \/ read_whois_cache
  \/ logfiles_lookup
  \/ read_logfiles
  \/ collect_whois_step
  \/ collect_whois_end
  \/ select_ac_step
  \/ remove_bots_step
  \/ stats
  \/ export
  \/ CallCollectWhois
  \/ NewProcess

Spec == Init /\ [][Next]_vars

\* ------------------------------------------------------------------ claims
\* The addresses this call has marked failed: the " [FAILED]" lines of stdout.
MarkedThisCall ==
  {stdout[k][1] : k \in {j \in 1..Len(stdout) : stdout[j][2] = " [FAILED]\n"}}

\* The addresses this call has looked up live: one stdout line each.
LookedUp == {stdout[k][1] : k \in 1..Len(stdout)}

\* The record is marked enrichment-complete.
IsComplete(l) == "_whois_done" \in DOMAIN l /\ l["_whois_done"] = TRUE

\* The step in which an exception reaches the except clause of collect_whois.
CrashStep == pc = "collect_whois" /\ swallowed = "none" /\ swallowed' # "none"

\* A step of collect_whois that calls whoislookup on data[i] and returns.
LookupReturns == pc = "collect_whois" /\ i <= Len(data) /\ i' = i + 1

\* C1: when an unexpected error is raised during collect_whois after address
\* A was the last one marked failed in this call, the cache file the except
\* clause writes has a failed set without A that still holds every other
\* address marked failed earlier (in this call or loaded at startup), and
\* nothing is enriched or looked up any more in this call.
C1_CrashRollback ==
  [][ /\ (CrashStep /\ MarkedThisCall # {}) =>
            /\ last_failed \in MarkedThisCall
            /\ cachefile'.exists
            /\ last_failed \notin cachefile'.failed
            /\ (MarkedThisCall \cup cachefile.failed \cup WHOIS_FAILED)
                  \ {last_failed} \subseteq cachefile'.failed
            /\ cachefile'.failed \subseteq WHOIS_FAILED
            /\ cachefile'.cache = WHOIS_CACHE
      /\ CrashStep => data' = data /\ i' = i
      /\ (swallowed # "none" /\ swallowed' # "none") =>
            data' = data /\ stdout' = stdout /\ i' = i ]_vars

\* C1's case: a crash after a failure was marked, with another failed address
\* kept in the file written and records left after the one that raised.
C1_Witness ==
  /\ swallowed # "none"
  /\ MarkedThisCall # {}
  /\ last_failed \notin cachefile.failed
  /\ cachefile.writer = "collect_whois"
  /\ cachefile.failed # {}
  /\ i < Len(data)

\* C2: whoislookup on a record that is not complete and whose address is a
\* key of WHOIS_CACHE issues no live lookup, leaves the cache, the failed
\* set and last_failed alone and leaves the record with exactly the cached
\* country, names and completion marker, its other fields untouched; and no
\* live lookup is ever issued for an address that is in the cache.
C2_CachedNoLookup ==
  [][ /\ (LookupReturns /\ ~IsComplete(data[i]) /\ data[i].ip \in DOMAIN WHOIS_CACHE) =>
            /\ stdout' = stdout
            /\ UNCHANGED <<WHOIS_CACHE, WHOIS_FAILED, last_failed, cachefile>>
            /\ DOMAIN data'[i] = (DOMAIN data[i]) \cup {"country", "names", "_whois_done"}
            /\ \A k \in {"country", "names", "_whois_done"} :
                 data'[i][k] = WHOIS_CACHE[data[i].ip][k]
            /\ \A k \in (DOMAIN data[i]) \ {"country", "names", "_whois_done"} :
                 data'[i][k] = data[i][k]
            /\ \A j \in (1..Len(data)) \ {i} : data'[j] = data[j]
      /\ (pc = "collect_whois" /\ Len(stdout') > Len(stdout)) =>
            stdout'[Len(stdout')][1] \notin DOMAIN WHOIS_CACHE ]_vars

\* C2's case: in main(), a record was completed without any live lookup in
\* this call, so from the cache the file gave or an earlier record filled.
C2_Witness ==
  /\ pc = "collect_whois"
  /\ caller = "main"
  /\ i > 1
  /\ IsComplete(data[i - 1])
  /\ data[i - 1].ip \in DOMAIN WHOIS_CACHE
  /\ \/ stdout = <<>>
     \/ i > 2 /\ data[i - 2].ip = data[i - 1].ip /\ Len(stdout) = 1

\* C3: whoislookup on a record whose address is in WHOIS_FAILED and not in
\* WHOIS_CACHE issues no live lookup and leaves the record with the default
\* metadata: country None, names the single all-None tuple, not complete.
C3_FailedKeepsDefaults ==
  [][ (LookupReturns /\ ~IsComplete(data[i]) /\ data[i].ip \in WHOIS_FAILED
         /\ data[i].ip \notin DOMAIN WHOIS_CACHE) =>
            /\ stdout' = stdout
            /\ {"country", "names", "_whois_done"} \subseteq DOMAIN data'[i]
            /\ data'[i]["country"] = None
            /\ data'[i]["names"] = << <<None, None, None, None>> >>
            /\ data'[i]["_whois_done"] = FALSE ]_vars

\* C4: no address is both a key of the cache and in the failed set, in
\* memory and in the cache file.
C4_Disjoint ==
  /\ (DOMAIN WHOIS_CACHE) \cap WHOIS_FAILED = {}
  /\ (DOMAIN cachefile.cache) \cap cachefile.failed = {}

\* C4's case: a second run, started from a file an earlier run wrote, has
\* both resolved and failed addresses in memory and has saved them.
C4_Witness ==
  /\ runs = 2
  /\ pc = "idle"
  /\ outcome = "returned"
  /\ DOMAIN WHOIS_CACHE # {}
  /\ WHOIS_FAILED # {}
  /\ cachefile.cache = WHOIS_CACHE
  /\ cachefile.failed = WHOIS_FAILED

\* C5: an unexpected error raised during collect_whois is reported to the
\* caller once the rollback is saved: the call ends with that error and does
\* not go on to the filter, aggregation and report stages.
C5_ErrorSurfaces ==
  swallowed # "none" => (pc = "idle" /\ outcome = swallowed)

\* The failed addresses the first cache file of a behaviour may hold; any
\* other address in a file's failed set was marked failed by a lookup of an
\* earlier run of the behaviour.
InitiallyFailed == UNION {f.failed : f \in InitialCacheFiles}

\* A step of collect_whois that calls whoislookup on data[i], not complete,
\* in a run whose cache file export wrote with data[i]'s address failed.
FailedInSavedFile ==
  /\ pc = "collect_whois"
  /\ i <= Len(data)
  /\ ~IsComplete(data[i])
  /\ cachefile.writer = "export"
  /\ data[i].ip \in cachefile.failed

\* A step of collect_whois in which a live lookup fails with one of the
\* three caught errors.
TransientStep ==
  /\ pc = "collect_whois"
  /\ Len(stdout') > Len(stdout)
  /\ stdout'[Len(stdout')][2] = " [FAILED]\n"

\* C6 as claimed: after a caught lookup failure collect_whois goes on with
\* the next record, and in a later run started from the cache file a
\* completed run saved, a record with the failed address is looked up live
\* again.
C6_RetriedNextRun ==
  [][ /\ TransientStep => (pc' = "collect_whois" /\ i' = i + 1)
      /\ (FailedInSavedFile /\ caller = "main"
            /\ data[i].ip \notin InitiallyFailed) =>
            /\ Len(stdout') > Len(stdout)
            /\ stdout'[Len(stdout')][1] = data[i].ip ]_vars

\* C6 as amended: after a caught lookup failure collect_whois goes on with
\* the next record, the address in WHOIS_FAILED and the record not complete;
\* export saves the failed set, every address marked in the run included;
\* and in a later run started from that file a record with the failed
\* address is not looked up live.
C6_FailedPersists ==
  [][ /\ TransientStep =>
            /\ pc' = "collect_whois" /\ i' = i + 1
            /\ swallowed' = swallowed /\ outcome' = outcome
            /\ data[i].ip \in WHOIS_FAILED'
            /\ ~IsComplete(data'[i])
      /\ (pc = "export" /\ pc' = "idle") =>
            /\ cachefile'.failed = WHOIS_FAILED
            /\ MarkedThisCall \subseteq cachefile'.failed
      /\ FailedInSavedFile =>
            /\ stdout' = stdout
            /\ i' = i + 1
            /\ data[i].ip \in WHOIS_FAILED' ]_vars

\* C6's case: a second run, started from a file export wrote, has passed a
\* record whose address an earlier run marked failed, without a lookup.
C6_Witness ==
  /\ runs = 2
  /\ caller = "main"
  /\ pc = "collect_whois"
  /\ i > 1
  /\ cachefile.writer = "export"
  /\ data[i - 1].ip \in cachefile.failed \ InitiallyFailed
  /\ data[i - 1].ip \notin LookedUp

\* The lines of the logs that have all the fields processline reads.
WellFormedLines == SelectSeq(all_lines(logs), LAMBDA l : Len(l) >= NFields)

\* C7: a log line with fewer fields than processline reads is skipped:
\* read_logfiles returns, and self.data holds the record of every other
\* line of every log, in order.
C7_MalformedSkipped ==
  [][ (/\ pc = "read_logfiles"
       /\ \A k \in 1..Len(WellFormedLines) :
            processline_raises(WellFormedLines[k]) = "none") =>
         /\ pc' = "collect_whois"
         /\ data' = parsed_records(WellFormedLines) ]_vars

\* C8: whoislookup on a record that is already complete changes nothing,
\* whatever the cache and the failed set hold: not the record, not the
\* cache, the failed set, last_failed or the cache file, and it issues no
\* live lookup.
C8_CompleteIsNoOp ==
  [][ (pc = "collect_whois" /\ i <= Len(data) /\ IsComplete(data[i])) =>
         /\ data' = data
         /\ UNCHANGED <<WHOIS_CACHE, WHOIS_FAILED, last_failed, cachefile>>
         /\ stdout' = stdout
         /\ i' = i + 1 /\ pc' = pc ]_vars

\* C8's case: collect_whois, called again, has passed a complete record
\* whose address is no longer in the cache.
C8_Witness ==
  /\ pc = "collect_whois"
  /\ caller = "direct"
  /\ i > 1
  /\ IsComplete(data[i - 1])
  /\ data[i - 1].ip \notin DOMAIN WHOIS_CACHE
  /\ data[i - 1].ip \notin WHOIS_FAILED

\* No field of any ownership tuple of d contains a bot keyword; None and
\* empty fields contain none.
NoBotField(d) ==
  \A t \in 1..Len(d.names) : \A f \in 1..Len(d.names[t]) :
    \/ d.names[t][f] = None
    \/ \A b \in bot_keywords : ~Contains(d.names[t][f], b)

\* C9: when remove_bots returns, self.data holds exactly the records, in
\* their order, none of whose ownership fields contains a bot keyword; a
\* record with only the all-None tuple is kept.
C9_BotsRemoved ==
  [][ (pc = "remove_bots" /\ pc' = "stats") =>
         /\ data' = SelectSeq(data, NoBotField)
         /\ \A k \in 1..Len(data) :
              data[k].names = << <<None, None, None, None>> >> =>
                \E j \in 1..Len(data') : data'[j] = data[k] ]_vars

\* C9's case: remove_bots has dropped a record and kept another.
C9_Witness ==
  /\ pc = "stats"
  /\ ~only_ac
  /\ Len(data) > 0
  /\ Len(data) < Len(all_lines(logs))

\* The records with the label lab among those names() counts.
Carrying(lab) ==
  {k \in 1..Len(data) :
     /\ "names" \in DOMAIN data[k]
     /\ Len(data[k].names) > 0
     /\ name_label(data[k]) = lab}

\* C10: after stats, for every label the raw count is the number of records
\* carrying it and the unique count is the number of distinct addresses
\* among those records.
C10_RawAndUnique ==
  pc = "export" =>
    LET labels == {name_label(data[k]) :
                     k \in {j \in 1..Len(data) :
                              "names" \in DOMAIN data[j] /\ Len(data[j].names) > 0}}
    IN /\ DOMAIN visitors_names = labels
       /\ DOMAIN visitors_names_unique = labels
       /\ \A lab \in labels :
            /\ visitors_names[lab] = Cardinality(Carrying(lab))
            /\ visitors_names_unique[lab] =
                 Cardinality({data[k].ip : k \in Carrying(lab)})

\* C10's case: a label two records of one address carry counts 2 raw and 1
\* unique, beside a record that has no ownership tuple.
C10_Witness ==
  /\ pc = "export"
  /\ \E lab \in DOMAIN visitors_names :
       visitors_names[lab] = 2 /\ visitors_names_unique[lab] = 1
  /\ \E k \in 1..Len(data) : Len(data[k].names) = 0
====
